---- MODULE Spec2Model ----
(***************************************************************************)
(* State machinery of the RNNG transition parser                           *)
(* (pytext/models/semantic_parsers/rnng/rnng_data_structures.py):          *)
(* Element, StackLSTM and ParserState.                                     *)
(*                                                                         *)
(* Python lists are mutable objects that several owners may reference, so  *)
(* every list lives in `heap` under an address and the objects hold the    *)
(* address.  Tuples and numbers are immutable and are held by value.       *)
(* Tensors are abstracted to integers modulo VecMod; the recurrent cell    *)
(* (torch.nn.LSTM) is abstracted to a fixed deterministic update per cell. *)
(***************************************************************************)
EXTENDS Integers, Sequences, FiniteSets, TLC

VARIABLES
    heap,    \* address -> contents of a Python list
    cands,   \* the ParserState objects alive, in creation order
    calls,   \* per candidate and stack: pushes, pops since creation; depth at creation
    nops,    \* number of calls the decode loop has made
    last,    \* the last call made, and whether it raised
    ret,     \* what the last call returned, or the exception it raised
    xs,      \* the list of vectors the caller holds for a composition
    comp     \* the last composition forward() call: inputs, draws, output

vars == <<heap, cands, calls, nops, last, ret, xs, comp>>

----------------------------------------------------------------------------
(* Bounds of the exploration *)

MaxOps == 4
MaxCands == 3
VecMod == 7

(* Inputs the decode loop may supply *)
\* what it pushes: a node together with the vector it embeds the node as
PushInputs == {[expression |-> 1, node |-> "a"], [expression |-> 2, node |-> "b"]}
ActionIds == {1, 2}
Scores == {-1, -2}
NegProbs == {-7, -3, 0}
OpenCounts == {0, 1}

StackNames == {"buffer_stackrnn", "stack_stackrnn", "action_stackrnn"}
ListFields == {"predicted_actions_idx", "action_scores", "is_open_NT"}
ScalarFields == {"num_open_NT", "neg_prob", "found_unsupported"}

ListValues(f) ==
    IF f = "predicted_actions_idx" THEN ActionIds
    ELSE IF f = "action_scores" THEN Scores
    ELSE BOOLEAN

ScalarValues(f) ==
    IF f = "num_open_NT" THEN OpenCounts
    ELSE IF f = "neg_prob" THEN NegProbs
    ELSE BOOLEAN

\* the outcome of a call: it returned, or it raised
Returned(call) == [call |-> call, raised |-> FALSE]
Raised(call) == [call |-> call, raised |-> TRUE]
None == "None"
IndexError == "IndexError"
ValueError == "ValueError"

----------------------------------------------------------------------------
(* Python sequence primitives *)

\* seq[i] raises IndexError for a Python index i outside -len .. len - 1
PyIndexRaises(seq, i) ==
    IF i >= 0 THEN i >= Len(seq) ELSE -i > Len(seq)

\* seq[i] for a Python index i in range (negative counts from the end)
PyIndex(seq, i) ==
    IF i >= 0 THEN seq[i + 1] ELSE seq[Len(seq) + i + 1]

\* seq[:-1]
Front(seq) == SubSeq(seq, 1, Len(seq) - 1)

----------------------------------------------------------------------------
(* Element *)

Element(node) == [node |-> node]

ElementEq(self, other) == self.node = other.node

----------------------------------------------------------------------------
(* The recurrent cell: two layers, state = <<h, c>> with one value a layer *)

CellWeight(lstm) ==
    IF lstm = "buff_rnn" THEN 1
    ELSE IF lstm = "stack_rnn" THEN 2
    ELSE 3

\* lstm(input, state) -> <<output, new state>>
Lstm(lstm, x, state) ==
    LET h == state[1]
        c == state[2]
        w == CellWeight(lstm)
        c1 == (c[1] + x + w) % VecMod
        h1 == (h[1] + 2 * c1 + 1) % VecMod
        c2 == (c[2] + h1 + w) % VecMod
        h2 == (h[2] + 2 * c2 + 1) % VecMod
    IN  << h2, << <<h1, h2>>, <<c1, c2>> >> >>

\* parser.init_lstm()
InitLstm == << <<1, 2>>, <<0, 0>> >>

\* parser.pempty_buffer_emb, parser.empty_stack_emb, parser.empty_action_emb
EmptyEmb(s) ==
    IF s = "buffer_stackrnn" THEN 4
    ELSE IF s = "stack_stackrnn" THEN 5
    ELSE 6

----------------------------------------------------------------------------
(* StackLSTM.  An object is [lstm, empty, stack], stack being the address  *)
(* of its list of frames <<state, <<embedding, element>>>>.                *)

\* state[0][-1]
LstmOutput(state) == PyIndex(state[1], -1)

\* an __init__ that starts from an empty list, without the sentinel
InitialStackNoRoot(initial_state) == <<>>

\* the list built by __init__ from initial_state
InitialStack(initial_state) ==
    << <<initial_state, <<LstmOutput(initial_state), Element("Root")>>>> >>

StackLSTM(lstm, addr, empty_embedding) ==
    [lstm |-> lstm, empty |-> empty_embedding, stack |-> addr]

\* a __len__ that counts the sentinel
StackLenCountsRoot(self) == Len(heap[self.stack])

\* self.__len__(): len(self.stack) - 1
StackLen(self) == Len(heap[self.stack]) - 1

\* len(self): the built-in rejects a negative __len__ with ValueError
LenRaises(self) == StackLen(self) < 0

\* a push that feeds the cell the bottom frame's state: self.stack[0][0]
PushFrameFromBottom(self, expression, element) ==
    LET old_top_state == PyIndex(heap[self.stack], 0)[1]
        new_top_state == Lstm(self.lstm, expression, old_top_state)[2]
    IN  <<new_top_state, <<LstmOutput(new_top_state), element>>>>

\* the frame push appends
PushFrame(self, expression, element) ==
    LET old_top_state == PyIndex(heap[self.stack], -1)[1]
        new_top_state == Lstm(self.lstm, expression, old_top_state)[2]
    IN  <<new_top_state, <<LstmOutput(new_top_state), element>>>>

\* a pop that takes the list's first frame: self.stack.pop(0)[1]
PopResultOfBottom(self) == PyIndex(heap[self.stack], 0)[2]

\* what pop returns: the (embedding, element) of the frame list.pop() removes
PopResult(self) == PyIndex(heap[self.stack], -1)[2]

StackEmbedding(self) ==
    IF Len(heap[self.stack]) < 1
    THEN self.empty
    ELSE LstmOutput(PyIndex(heap[self.stack], -1)[1])

\* element_from_top(index) raises IndexError
ElementFromTopRaises(self, index) == PyIndexRaises(heap[self.stack], -(index + 1))

\* an element_from_top that is off by one: self.stack[-index][1][1]
ElementFromTopOffByOne(self, index) == PyIndex(heap[self.stack], -index)[2][2]

\* element_from_top(index) where it returns
ElementFromTop(self, index) == PyIndex(heap[self.stack], -(index + 1))[2][2]

\* a copy that takes the list itself: other.stack = self.stack
StackLSTMCopyAliased(self, addr) == StackLSTM(self.lstm, self.stack, self.empty)

\* other = StackLSTM(self.lstm, None, self.empty); other.stack = list(self.stack),
\* the new list being allocated at addr
StackLSTMCopy(self, addr) == StackLSTM(self.lstm, addr, self.empty)

----------------------------------------------------------------------------
(* ParserState *)

\* a constructor that hands one list to two of the stacks
NewParserStateSharedList(base) ==
    [buffer_stackrnn |-> StackLSTM("buff_rnn", base + 1, EmptyEmb("buffer_stackrnn")),
     stack_stackrnn |-> StackLSTM("stack_rnn", base + 2, EmptyEmb("stack_stackrnn")),
     action_stackrnn |-> StackLSTM("action_rnn", base + 2, EmptyEmb("action_stackrnn")),
     predicted_actions_idx |-> base + 4,
     action_scores |-> base + 5,
     num_open_NT |-> 0,
     is_open_NT |-> base + 6,
     found_unsupported |-> FALSE,
     neg_prob |-> 0]

\* ParserState(parser), its six lists allocated at base + 1 .. base + 6
NewParserState(base) ==
    [buffer_stackrnn |-> StackLSTM("buff_rnn", base + 1, EmptyEmb("buffer_stackrnn")),
     stack_stackrnn |-> StackLSTM("stack_rnn", base + 2, EmptyEmb("stack_stackrnn")),
     action_stackrnn |-> StackLSTM("action_rnn", base + 3, EmptyEmb("action_stackrnn")),
     predicted_actions_idx |-> base + 4,
     action_scores |-> base + 5,
     num_open_NT |-> 0,
     is_open_NT |-> base + 6,
     found_unsupported |-> FALSE,
     neg_prob |-> 0]

NewParserLists ==
    << InitialStack(InitLstm), InitialStack(InitLstm), InitialStack(InitLstm),
       <<>>, <<>>, <<>> >>

\* finished() raises when a len() it evaluates raises: the left operand
\* always, the right one only when the left comparison is true
FinishedRaises(self) ==
    \/ LenRaises(self.stack_stackrnn)
    \/ (StackLen(self.stack_stackrnn) = 1 /\ LenRaises(self.buffer_stackrnn))

\* len(self.stack_stackrnn) == 1 and len(self.buffer_stackrnn) == 0
Finished(self) ==
    IF FinishedRaises(self) THEN ValueError
    ELSE StackLen(self.stack_stackrnn) = 1 /\ StackLen(self.buffer_stackrnn) = 0

\* a copy() that leaves the ranking key at its initial value
ParserStateCopyResetsKey(self, base) ==
    [buffer_stackrnn |-> StackLSTMCopy(self.buffer_stackrnn, base + 1),
     stack_stackrnn |-> StackLSTMCopy(self.stack_stackrnn, base + 2),
     action_stackrnn |-> StackLSTMCopy(self.action_stackrnn, base + 3),
     predicted_actions_idx |-> base + 4,
     action_scores |-> base + 5,
     num_open_NT |-> self.num_open_NT,
     is_open_NT |-> base + 6,
     neg_prob |-> 0,
     found_unsupported |-> self.found_unsupported]

\* a copy() that forgets .copy() on the action sequence
ParserStateCopyAliased(self, base) ==
    [buffer_stackrnn |-> StackLSTMCopy(self.buffer_stackrnn, base + 1),
     stack_stackrnn |-> StackLSTMCopy(self.stack_stackrnn, base + 2),
     action_stackrnn |-> StackLSTMCopy(self.action_stackrnn, base + 3),
     predicted_actions_idx |-> self.predicted_actions_idx,
     action_scores |-> base + 5,
     num_open_NT |-> self.num_open_NT,
     is_open_NT |-> base + 6,
     neg_prob |-> self.neg_prob,
     found_unsupported |-> self.found_unsupported]

\* the object copy() returns, its six new lists allocated at base + 1 .. base + 6
ParserStateCopy(self, base) ==
    [buffer_stackrnn |-> StackLSTMCopy(self.buffer_stackrnn, base + 1),
     stack_stackrnn |-> StackLSTMCopy(self.stack_stackrnn, base + 2),
     action_stackrnn |-> StackLSTMCopy(self.action_stackrnn, base + 3),
     predicted_actions_idx |-> base + 4,
     action_scores |-> base + 5,
     num_open_NT |-> self.num_open_NT,
     is_open_NT |-> base + 6,
     neg_prob |-> self.neg_prob,
     found_unsupported |-> self.found_unsupported]

\* the contents of the lists copy() allocates
CopiedLists(self) ==
    << heap[self.buffer_stackrnn.stack],
       heap[self.stack_stackrnn.stack],
       heap[self.action_stackrnn.stack],
       heap[self.predicted_actions_idx],
       heap[self.action_scores],
       heap[self.is_open_NT] >>

\* a __gt__ that compares the wrong way round
GtReversed(self, other) == self.neg_prob < other.neg_prob

Gt(self, other) == self.neg_prob > other.neg_prob

Eq(self, other) == self.neg_prob = other.neg_prob

\* a < b: ParserState defines no __lt__, so Python evaluates the reflected b > a
Lt(a, b) == Gt(b, a)

\* sorted(states): a stable sort that compares with < only
RECURSIVE InsertSorted(_, _)
InsertSorted(sorted, x) ==
    IF sorted = <<>> THEN <<x>>
    ELSE IF Lt(x, sorted[Len(sorted)])
         THEN Append(InsertSorted(Front(sorted), x), sorted[Len(sorted)])
         ELSE Append(sorted, x)

RECURSIVE PySorted(_)
PySorted(states) ==
    IF states = <<>> THEN <<>>
    ELSE InsertSorted(PySorted(Front(states)), states[Len(states)])

----------------------------------------------------------------------------
(* Ghost bookkeeping *)

(* For each stack: the push and pop calls completed on it since it was     *)
(* created, the depth it was created with (0 unless it is a copy), and     *)
(* the inputs <<expression, element>> of the pushes not yet popped.        *)

NoCalls == [s \in StackNames |-> [pushes |-> 0, pops |-> 0, base |-> 0, live |-> <<>>]]

CallsOfCopy(c) ==
    [s \in StackNames |->
        [pushes |-> 0, pops |-> 0,
         base |-> Len(calls[c][s].live), live |-> calls[c][s].live]]

Cands == 1..Len(cands)

----------------------------------------------------------------------------
(* Composition functions: CompositionalNN and CompositionalSummationNN     *)

\* longest list of vectors handed to forward()
MaxLen == 3

\* the vectors the caller composes
CompVecs == {1, 2}

\* x: children in reversed order, the nonterminal last; never empty
InputLists == UNION {[1..n -> CompVecs] : n \in 1..MaxLen}

\* xaviervar(1, 1, lstm_dim): a tensor initialised anew at every call
XavierDraws == {0, 1}

\* (h_0, c_0), each from its own xaviervar call
XavierPairs == XavierDraws \X XavierDraws

\* the learned parameters of lstm_fwd and lstm_rev
CompWeight(lstm) == IF lstm = "lstm_fwd" THEN 1 ELSE 2

\* one time step of a one-layer nn.LSTM: state = (h, c)
LstmStep(lstm, v, state) ==
    LET c1 == (state[2] + v + CompWeight(lstm)) % VecMod
        h1 == (state[1] + 2 * c1 + 1) % VecMod
    IN  <<h1, c1>>

\* the states after each time step of the sequence
RECURSIVE LstmStates(_, _, _)
LstmStates(lstm, input, hidden) ==
    IF input = <<>> THEN <<>>
    ELSE LET before == LstmStates(lstm, Front(input), hidden)
             state == IF before = <<>> THEN hidden ELSE before[Len(before)]
         IN  Append(before, LstmStep(lstm, input[Len(input)], state))

\* nn.LSTM(input, hidden) = (output, (h_n, c_n)): output holds h_t of every
\* time step
LstmSeq(lstm, input, hidden) ==
    LET states == LstmStates(lstm, input, hidden) IN
    << [t \in 1..Len(input) |-> states[t][1]],
       << states[Len(input)][1], states[Len(input)][2] >> >>

\* x[::-1]
Reversed(seq) == [i \in 1..Len(seq) |-> seq[Len(seq) + 1 - i]]

\* a forward input that keeps the children in the given order
FwdInputUnreversed(x) == <<PyIndex(x, -1)>> \o Front(x)

\* fwd_input = [nonterminal_element] + reversed_rest[::-1]
FwdInput(x) == <<PyIndex(x, -1)>> \o Reversed(Front(x))

\* rev_input = [nonterminal_element] + reversed_rest
RevInput(x) == <<PyIndex(x, -1)>> \o Front(x)

\* linear_seq of CompositionalNN on torch.cat([a, b], dim=1)
ProjectPair(a, b) == (3 * a + 5 * b + 1) % VecMod

\* linear_seq of CompositionalSummationNN
Project(v) == (3 * v + 1) % VecMod

\* CompositionalNN.forward(x) with the drawn hidden states: [0][0] is the
\* output tensor at time step 0
CompositionalForward(x, hidden_fwd, hidden_rev) ==
    LET stacked_fwd == LstmSeq("lstm_fwd", FwdInput(x), hidden_fwd)[1][1]
        stacked_rev == LstmSeq("lstm_rev", RevInput(x), hidden_rev)[1][1]
    IN  ProjectPair(stacked_fwd, stacked_rev)

RECURSIVE TorchSum(_)
TorchSum(x) == IF x = <<>> THEN 0 ELSE (TorchSum(Front(x)) + x[Len(x)]) % VecMod

\* a forward that keeps row 0 of torch.cat(x) instead of summing the rows
SummationForwardFirstRow(x) == Project(x[1])

\* CompositionalSummationNN.forward(x)
SummationForward(x) == Project(TorchSum(x))

\* no forward() call made yet
NoForward ==
    [fn |-> "none", x |-> <<>>, hidden_fwd |-> <<0, 0>>, hidden_rev |-> <<0, 0>>,
     fwd_input |-> <<>>, rev_input |-> <<>>, x_after |-> <<>>, out |-> 0]

----------------------------------------------------------------------------
(* Initial state: one ParserState constructed from the parser *)

Init ==
    /\ heap = NewParserLists
    /\ cands = << NewParserState(0) >>
    /\ calls = << NoCalls >>
    /\ nops = 0
    /\ last = Returned("__init__")
    /\ ret = None
    /\ xs = <<>>
    /\ comp = NoForward

----------------------------------------------------------------------------
(* Operations *)

\* cands[c].<s>.push(expression, element)
Push(c, s, expression, element) ==
    LET self == cands[c][s] IN
    /\ nops < MaxOps
    /\ IF Len(heap[self.stack]) = 0
       THEN /\ last' = Raised("push")
            /\ ret' = IndexError
            /\ UNCHANGED <<heap, calls>>
       ELSE /\ last' = Returned("push")
            /\ calls' = [calls EXCEPT ![c][s].pushes = @ + 1,
                                      ![c][s].live = Append(@, <<expression, element>>)]
            /\ heap' = [heap EXCEPT ![self.stack] =
                            Append(@, PushFrame(self, expression, element))]
            /\ ret' = None
    /\ nops' = nops + 1
    /\ UNCHANGED cands
    /\ UNCHANGED <<xs, comp>>

\* cands[c].<s>.pop()
Pop(c, s) ==
    LET self == cands[c][s] IN
    /\ nops < MaxOps
    /\ IF Len(heap[self.stack]) = 0
       THEN /\ last' = Raised("pop")
            /\ ret' = IndexError
            /\ UNCHANGED <<heap, calls>>
       ELSE /\ last' = Returned("pop")
            /\ calls' = [calls EXCEPT ![c][s].pops = @ + 1,
                                      ![c][s].live = Front(@)]
            /\ heap' = [heap EXCEPT ![self.stack] = Front(@)]
            /\ ret' = PopResult(self)
    /\ nops' = nops + 1
    /\ UNCHANGED cands
    /\ UNCHANGED <<xs, comp>>

\* cands.append(cands[c].copy())
Copy(c) ==
    /\ nops < MaxOps
    /\ Len(cands) < MaxCands
    /\ last' = Returned("copy")
    /\ cands' = Append(cands, ParserStateCopy(cands[c], Len(heap)))
    /\ heap' = heap \o CopiedLists(cands[c])
    /\ calls' = Append(calls, CallsOfCopy(c))
    /\ ret' = None
    /\ nops' = nops + 1
    /\ UNCHANGED <<xs, comp>>

\* cands[c].<f>.append(v)
ListAppend(c, f, v) ==
    /\ nops < MaxOps
    /\ last' = Returned("append")
    /\ heap' = [heap EXCEPT ![cands[c][f]] = Append(@, v)]
    /\ ret' = None
    /\ nops' = nops + 1
    /\ UNCHANGED <<cands, calls>>
    /\ UNCHANGED <<xs, comp>>

\* cands[c].<f>.pop()
ListRemove(c, f) ==
    /\ nops < MaxOps
    /\ Len(heap[cands[c][f]]) > 0
    /\ last' = Returned("list.pop")
    /\ heap' = [heap EXCEPT ![cands[c][f]] = Front(@)]
    /\ ret' = PyIndex(heap[cands[c][f]], -1)
    /\ nops' = nops + 1
    /\ UNCHANGED <<cands, calls>>
    /\ UNCHANGED <<xs, comp>>

\* cands[c].<f> = v
SetField(c, f, v) ==
    /\ nops < MaxOps
    /\ cands[c][f] # v
    /\ last' = Returned("setattr")
    /\ cands' = [cands EXCEPT ![c][f] = v]
    /\ ret' = None
    /\ nops' = nops + 1
    /\ UNCHANGED <<heap, calls>>
    /\ UNCHANGED <<xs, comp>>

----------------------------------------------------------------------------
(* The decode loop keeps the preconditions: it pops only at depth >= 1 *)

CheckedPop(c, s) == StackLen(cands[c][s]) >= 1 /\ Pop(c, s)

Bookkeeping ==
    \/ \E c \in Cands, f \in ListFields : \E v \in ListValues(f) : ListAppend(c, f, v)
    \/ \E c \in Cands, f \in ListFields : ListRemove(c, f)
    \/ \E c \in Cands, f \in ScalarFields : \E v \in ScalarValues(f) : SetField(c, f, v)

Next ==
    \/ \E c \in Cands, s \in StackNames, in \in PushInputs :
            Push(c, s, in.expression, Element(in.node))
    \/ \E c \in Cands, s \in StackNames : CheckedPop(c, s)
    \/ \E c \in Cands : Copy(c)
    \/ Bookkeeping

Spec == Init /\ [][Next]_vars

(* A caller that pops at any depth *)
NextAnyCaller ==
    \/ \E c \in Cands, s \in StackNames, in \in PushInputs :
            Push(c, s, in.expression, Element(in.node))
    \/ \E c \in Cands, s \in StackNames : Pop(c, s)
    \/ \E c \in Cands : Copy(c)
    \/ Bookkeeping

SpecAnyCaller == Init /\ [][NextAnyCaller]_vars

----------------------------------------------------------------------------
(* The readers, called between the mutating calls. They assign nothing to  *)
(* the objects; like every call they count against MaxOps.                 *)

\* cands[c].<s>.embedding()
ReadEmbedding(c, s) ==
    /\ nops < MaxOps
    /\ last' = Returned("embedding")
    /\ ret' = StackEmbedding(cands[c][s])
    /\ nops' = nops + 1
    /\ UNCHANGED <<heap, cands, calls>>
    /\ UNCHANGED <<xs, comp>>

\* cands[c].<s>.element_from_top(index)
ReadElementFromTop(c, s, index) ==
    /\ nops < MaxOps
    /\ IF ElementFromTopRaises(cands[c][s], index)
       THEN /\ last' = Raised("element_from_top")
            /\ ret' = IndexError
       ELSE /\ last' = Returned("element_from_top")
            /\ ret' = ElementFromTop(cands[c][s], index)
    /\ nops' = nops + 1
    /\ UNCHANGED <<heap, cands, calls>>
    /\ UNCHANGED <<xs, comp>>

\* len(cands[c].<s>)
ReadLen(c, s) ==
    /\ nops < MaxOps
    /\ IF LenRaises(cands[c][s])
       THEN /\ last' = Raised("__len__")
            /\ ret' = ValueError
       ELSE /\ last' = Returned("__len__")
            /\ ret' = StackLen(cands[c][s])
    /\ nops' = nops + 1
    /\ UNCHANGED <<heap, cands, calls>>
    /\ UNCHANGED <<xs, comp>>

\* cands[c].finished()
ReadFinished(c) ==
    /\ nops < MaxOps
    /\ IF FinishedRaises(cands[c])
       THEN /\ last' = Raised("finished")
            /\ ret' = ValueError
       ELSE /\ last' = Returned("finished")
            /\ ret' = Finished(cands[c])
    /\ nops' = nops + 1
    /\ UNCHANGED <<heap, cands, calls>>
    /\ UNCHANGED <<xs, comp>>

CompareOps == {"__gt__", "__lt__", "__eq__"}

ReadCalls == {"embedding", "element_from_top", "__len__", "finished"} \cup CompareOps

\* cands[c] > cands[d], cands[c] < cands[d], cands[c] == cands[d]
Compare(c, d, op) ==
    /\ nops < MaxOps
    /\ last' = Returned(op)
    /\ ret' = CASE op = "__gt__" -> Gt(cands[c], cands[d])
                 [] op = "__lt__" -> Lt(cands[c], cands[d])
                 [] op = "__eq__" -> Eq(cands[c], cands[d])
    /\ nops' = nops + 1
    /\ UNCHANGED <<heap, cands, calls>>
    /\ UNCHANGED <<xs, comp>>

Reads ==
    \/ \E c \in Cands, s \in StackNames : ReadEmbedding(c, s)
    \/ \E c \in Cands, s \in StackNames, index \in 0..MaxOps :
            ReadElementFromTop(c, s, index)
    \/ \E c \in Cands, s \in StackNames : ReadLen(c, s)
    \/ \E c \in Cands : ReadFinished(c)
    \/ \E c \in Cands, d \in Cands, op \in CompareOps : Compare(c, d, op)

NextWithReads == Next \/ Reads

SpecReads == Init /\ [][NextWithReads]_vars

----------------------------------------------------------------------------
(* Composition calls on a list drawn from InputLists *)

InitCompose ==
    /\ heap = NewParserLists
    /\ cands = << NewParserState(0) >>
    /\ calls = << NoCalls >>
    /\ nops = 0
    /\ last = Returned("__init__")
    /\ ret = None
    /\ xs \in InputLists
    /\ comp = NoForward

\* CompositionalNN.forward(xs); the four xaviervar calls draw hidden_fwd and
\* hidden_rev
ForwardCompositional(hidden_fwd, hidden_rev) ==
    /\ comp' = [fn |-> "CompositionalNN",
                x |-> xs,
                hidden_fwd |-> hidden_fwd,
                hidden_rev |-> hidden_rev,
                fwd_input |-> FwdInput(xs),
                rev_input |-> RevInput(xs),
                x_after |-> xs,
                out |-> CompositionalForward(xs, hidden_fwd, hidden_rev)]
    /\ UNCHANGED <<xs, heap, cands, calls, nops, last, ret>>

\* CompositionalSummationNN.forward(xs)
ForwardSummation ==
    /\ comp' = [fn |-> "CompositionalSummationNN",
                x |-> xs,
                hidden_fwd |-> <<0, 0>>,
                hidden_rev |-> <<0, 0>>,
                fwd_input |-> <<>>,
                rev_input |-> <<>>,
                x_after |-> xs,
                out |-> SummationForward(xs)]
    /\ UNCHANGED <<xs, heap, cands, calls, nops, last, ret>>

\* x with its children x[:-1] rearranged by p, the nonterminal kept last
PermuteRest(x, p) ==
    [i \in 1..Len(x) |-> IF i = Len(x) THEN x[i] ELSE x[p[i]]]

\* the caller presents the same children in another order
Reorder(p) ==
    /\ xs' = PermuteRest(xs, p)
    /\ xs' # xs
    /\ UNCHANGED <<comp, heap, cands, calls, nops, last, ret>>

NextCompose ==
    \/ \E hidden_fwd \in XavierPairs, hidden_rev \in XavierPairs :
            ForwardCompositional(hidden_fwd, hidden_rev)
    \/ ForwardSummation
    \/ \E p \in Permutations(1..(Len(xs) - 1)) : Reorder(p)

SpecCompose == InitCompose /\ [][NextCompose]_vars

----------------------------------------------------------------------------
(* What a caller can observe *)

\* the depth the completed calls account for
CountedDepth(c, s) == calls[c][s].base + calls[c][s].pushes - calls[c][s].pops

\* a stack through its readers: depth, element at every offset, embedding
StackView(self) ==
    [depth |-> StackLen(self),
     elements |-> [i \in 0..StackLen(self) |-> ElementFromTop(self, i)],
     embedding |-> StackEmbedding(self)]

\* a candidate through its fields
CandView(self) ==
    [buffer_stackrnn |-> heap[self.buffer_stackrnn.stack],
     stack_stackrnn |-> heap[self.stack_stackrnn.stack],
     action_stackrnn |-> heap[self.action_stackrnn.stack],
     predicted_actions_idx |-> heap[self.predicted_actions_idx],
     action_scores |-> heap[self.action_scores],
     is_open_NT |-> heap[self.is_open_NT],
     num_open_NT |-> self.num_open_NT,
     neg_prob |-> self.neg_prob,
     found_unsupported |-> self.found_unsupported]

\* the step is a push or a pop on stack s of candidate c
StackCallOn(c, s) ==
    \/ \E in \in PushInputs : Push(c, s, in.expression, Element(in.node))
    \/ Pop(c, s)

\* the step is a write to a bookkeeping field of candidate c
FieldWriteOn(c) ==
    \/ \E f \in ListFields : \E v \in ListValues(f) : ListAppend(c, f, v)
    \/ \E f \in ListFields : ListRemove(c, f)
    \/ \E f \in ScalarFields : \E v \in ScalarValues(f) : SetField(c, f, v)

----------------------------------------------------------------------------
(* C1: with every pop issued at depth >= 1, len(stack) is the number of    *)
(* pushes minus the number of pops (plus, for a copy, the depth it was     *)
(* copied at); the Root frame is not counted, a stack no call has touched  *)
(* has depth 0, and depth is never negative.                               *)
DepthIsPushesMinusPops ==
    \A c \in Cands, s \in StackNames :
        /\ StackLen(cands[c][s]) = CountedDepth(c, s)
        /\ StackLen(cands[c][s]) >= 0
        /\ c = 1 => StackLen(cands[c][s]) = calls[c][s].pushes - calls[c][s].pops

DepthAfterPushesAndPops ==
    \E s \in StackNames :
        /\ calls[1][s].pushes = 3
        /\ calls[1][s].pops = 1
        /\ StackLen(cands[1][s]) = 2

(* C2: a push or pop on one stack leaves every stack of every other        *)
(* candidate (the original and all other copies) unchanged in depth, in    *)
(* the element at every offset and in embedding.                           *)
StackCopyIndependence ==
    [][\A c \in Cands, s \in StackNames :
          StackCallOn(c, s) =>
              \A d \in Cands \ {c}, u \in StackNames :
                  StackView(cands[d][u])' = StackView(cands[d][u])]_vars

\* a copy has popped a frame it was copied with and pushed a new one, and
\* now differs from the original
CopyDivergedFromOriginal ==
    \E d \in Cands, s \in StackNames :
        /\ d > 1
        /\ calls[d][s].base >= 1
        /\ calls[d][s].pops >= 1
        /\ calls[d][s].pushes >= 1
        /\ StackView(cands[d][s]) # StackView(cands[1][s])

(* C3: in every reachable state finished() answers, and it is true exactly *)
(* when the control stack holds one pushed frame and the buffer none, and  *)
(* false for every other pair of depths, whatever the action-history       *)
(* stack, the bookkeeping fields and the calls made before.                *)
FinishedIffDepths ==
    \A c \in Cands :
        /\ ~FinishedRaises(cands[c])
        /\ Finished(cands[c]) <=>
               (CountedDepth(c, "stack_stackrnn") = 1 /\ CountedDepth(c, "buffer_stackrnn") = 0)

(* C4: a write to a bookkeeping field of one candidate, or a push or pop on *)
(* one of its stacks, changes no sequence, scalar or stack of any other     *)
(* candidate.                                                               *)
CandidateCopyIndependence ==
    [][\A c \in Cands :
          (FieldWriteOn(c) \/ \E s \in StackNames : StackCallOn(c, s)) =>
              \A d \in Cands \ {c} : CandView(cands[d])' = CandView(cands[d])]_vars

\* a copy whose action sequence and ranking key were written after the copy
CopyWrittenAfterCopy ==
    \E d \in Cands :
        /\ d > 1
        /\ heap[cands[d].predicted_actions_idx] # heap[cands[1].predicted_actions_idx]
        /\ cands[d].neg_prob # cands[1].neg_prob

(* C5: a > b exactly when a.neg_prob > b.neg_prob, a == b exactly when the *)
(* keys are equal, and sorting the candidates with the comparisons Python  *)
(* derives from them yields ascending neg_prob: the smaller key first.     *)
RankingSortsAscending ==
    LET sorted == PySorted(cands) IN
    /\ Len(sorted) = Len(cands)
    /\ {sorted[i] : i \in 1..Len(sorted)} = {cands[i] : i \in Cands}
    /\ \A i, j \in 1..Len(sorted) :
          sorted[i].neg_prob < sorted[j].neg_prob => i < j
    /\ \A a, b \in Cands :
          /\ Gt(cands[a], cands[b]) <=> cands[a].neg_prob > cands[b].neg_prob
          /\ Eq(cands[a], cands[b]) <=> cands[a].neg_prob = cands[b].neg_prob

\* three candidates held out of order, the one at -7 sorted ahead of the one at -3
SortedReordersBeam ==
    /\ Len(cands) = 3
    /\ cands[2].neg_prob = -3
    /\ cands[3].neg_prob = -7
    /\ PySorted(cands)[1] = cands[3]
    /\ PySorted(cands)[2] = cands[2]
    /\ PySorted(cands)[3] = cands[1]

(* C6: for every i in 0..depth, element_from_top(i) returns the Element of *)
(* the (i+1)-th most recent push not yet popped, and element_from_top(depth)*)
(* returns the Root sentinel.                                              *)
ElementFromTopIsIthLatestPush ==
    \A c \in Cands, s \in StackNames :
        LET self == cands[c][s]
            live == calls[c][s].live
        IN  /\ StackLen(self) = Len(live)
            /\ \A i \in 0..StackLen(self) :
                  /\ ~ElementFromTopRaises(self, i)
                  /\ ElementEq(ElementFromTop(self, i),
                               IF i < Len(live) THEN live[Len(live) - i][2]
                               ELSE Element("Root"))

\* two unpopped pushes of different elements on a stack that has been popped
TwoLiveElementsAfterPop ==
    \E c \in Cands, s \in StackNames :
        /\ calls[c][s].pops >= 1
        /\ StackLen(cands[c][s]) = 2
        /\ ElementFromTop(cands[c][s], 0) = Element("b")
        /\ ElementFromTop(cands[c][s], 1) = Element("a")
        /\ ElementFromTop(cands[c][s], 2) = Element("Root")

(* C7: a pop at depth >= 1 returns the summary vector embedding() reported *)
(* before it and the Element of the most recent push not yet popped, and   *)
(* removes exactly that frame: every frame below moves up by one.          *)
PopReturnsTopFrame ==
    [][\A c \in Cands, s \in StackNames :
          (StackLen(cands[c][s]) >= 1 /\ Pop(c, s)) =>
              LET self == cands[c][s]
                  live == calls[c][s].live
              IN  /\ last' = Returned("pop")
                  /\ ret'[1] = StackEmbedding(self)
                  /\ ret'[2] = live[Len(live)][2]
                  /\ StackLen(self)' = StackLen(self) - 1
                  /\ \A i \in 0..(StackLen(self) - 1) :
                        ElementFromTop(self, i)' = ElementFromTop(self, i + 1)]_vars

\* two pushes and then two pops have completed on one stack, the last pop
\* returning the element "a"
PoppedInReverseOrder ==
    \E c \in Cands, s \in StackNames :
        /\ calls[c][s].pushes = 2
        /\ calls[c][s].pops = 2
        /\ last = Returned("pop")
        /\ ret[2] = Element("a")
        /\ nops = 4

(* C8: embedding() returns the top frame's summary vector at depth >= 1    *)
(* and the empty_embedding given at construction at depth 0.               *)
EmbeddingIsTopOrEmpty ==
    \A c \in Cands, s \in StackNames :
        LET self == cands[c][s] IN
        StackEmbedding(self) =
            IF StackLen(self) >= 1
            THEN PyIndex(heap[self.stack], -1)[2][1]
            ELSE self.empty

(* C9: pop() at depth 0 raises and leaves the stack unchanged, so the Root *)
(* frame is never removed.                                                 *)
PopAtDepthZeroRaises ==
    [][\A c \in Cands, s \in StackNames :
          (StackLen(cands[c][s]) = 0 /\ Pop(c, s)) =>
              /\ last' = Raised("pop")
              /\ heap'[cands[c][s].stack] = heap[cands[c][s].stack]]_vars

(* C10: element_from_top(index) raises for every index below 0 or above    *)
(* depth.                                                                  *)
Indexes == (0 - MaxOps - 2)..(MaxOps + 2)

ElementFromTopRaisesOutOfRange ==
    \A c \in Cands, s \in StackNames, i \in Indexes :
        (i < 0 \/ i > StackLen(cands[c][s])) => ElementFromTopRaises(cands[c][s], i)

(* C11: CompositionalNN.forward returns the projection of the two passes'  *)
(* final hidden vectors: the forward pass's vector after its last input    *)
(* concatenated with the backward pass's vector after its last input, so   *)
(* that a list of two or more vectors is used in full.                     *)
ResultIsProjectionOfFinalHidden ==
    comp.fn = "CompositionalNN" =>
        comp.out = ProjectPair(
                       LstmSeq("lstm_fwd", comp.fwd_input, comp.hidden_fwd)[2][1],
                       LstmSeq("lstm_rev", comp.rev_input, comp.hidden_rev)[2][1])

(* C12: for a non-empty x the forward pass consumes x[-1] followed by      *)
(* x[:-1] reversed and the backward pass x[-1] followed by x[:-1] as       *)
(* given; the nonterminal is first in both, each vector of x is consumed   *)
(* once by each pass, and x is not modified.                               *)
PassesConsumeNonterminalFirst ==
    comp.fn = "CompositionalNN" =>
        LET x == comp.x
            n == Len(comp.x)
        IN  /\ n >= 1
            /\ Len(comp.fwd_input) = n
            /\ Len(comp.rev_input) = n
            /\ comp.fwd_input[1] = x[n]
            /\ comp.rev_input[1] = x[n]
            /\ \A i \in 1..(n - 1) :
                  /\ comp.fwd_input[1 + i] = x[n - i]
                  /\ comp.rev_input[1 + i] = x[i]
            /\ comp.x_after = x

\* a call on three vectors whose two children differ
ComposedTwoDistinctChildren ==
    /\ comp.fn = "CompositionalNN"
    /\ Len(comp.x) = 3
    /\ comp.x[1] # comp.x[2]
    /\ comp.fwd_input # comp.rev_input

(* C13: CompositionalSummationNN.forward is the projection of the sum of   *)
(* all vectors of x, so its output is the same for every permutation of    *)
(* the children x[:-1].                                                    *)
SummationIsPermutationInvariant ==
    comp.fn = "CompositionalSummationNN" =>
        /\ comp.out = Project(TorchSum(comp.x))
        /\ \A p \in Permutations(1..(Len(comp.x) - 1)) :
              SummationForward(PermuteRest(comp.x, p)) = comp.out

\* a summation over three vectors whose two children differ
SummedTwoDistinctChildren ==
    /\ comp.fn = "CompositionalSummationNN"
    /\ Len(comp.x) = 3
    /\ comp.x[1] # comp.x[2]

(* C14: CompositionalNN.forward is order sensitive: with the parameters    *)
(* and the initial hidden states held fixed there are a list x and a       *)
(* permutation of x[:-1] on which the output differs from the output on x. *)
(* The lists are those the caller may hold, the one it holds now included. *)
CompositionalIsOrderSensitive ==
    \E x \in InputLists \cup {xs}, hidden_fwd \in XavierPairs, hidden_rev \in XavierPairs :
        \E p \in Permutations(1..(Len(x) - 1)) :
            CompositionalForward(PermuteRest(x, p), hidden_fwd, hidden_rev)
                # CompositionalForward(x, hidden_fwd, hidden_rev)

(* C15: two forward calls of the same variant on the same list return the  *)
(* same output; no call draws a fresh value that changes the result.       *)
RepeatedForwardSameOutput ==
    [][(/\ comp.fn # "none"
        /\ comp'.fn = comp.fn
        /\ comp'.x = comp.x) => comp'.out = comp.out]_vars

(* C16: a ParserState constructed from a parser has three stacks holding   *)
(* exactly the Root frame (depth 0), three empty sequences, num_open_NT 0, *)
(* neg_prob 0, found_unsupported False, and is not finished.               *)
FreshCandidateIsEmptyAndActive ==
    nops = 0 =>
        /\ Len(cands) = 1
        /\ \A s \in StackNames :
              /\ Len(heap[cands[1][s].stack]) = 1
              /\ StackLen(cands[1][s]) = 0
              /\ ElementEq(ElementFromTop(cands[1][s], 0), Element("Root"))
        /\ \A f \in ListFields : heap[cands[1][f]] = <<>>
        /\ cands[1].num_open_NT = 0
        /\ cands[1].neg_prob = 0
        /\ cands[1].found_unsupported = FALSE
        /\ ~Finished(cands[1])

\* the candidate as constructed, before any call
FreshCandidate ==
    /\ nops = 0
    /\ last = Returned("__init__")
    /\ ~Finished(cands[1])

(* C17: the recurrent state of the top frame is the recurrent update       *)
(* folded, bottom to top from the initial state, over the input vectors of *)
(* the pushes not yet popped; two stacks of the same cell holding the same *)
(* unpopped inputs have the same embedding whatever was pushed and popped  *)
(* in between.                                                             *)
RECURSIVE FoldedState(_, _)
FoldedState(lstm, inputs) ==
    IF inputs = <<>> THEN InitLstm
    ELSE Lstm(lstm, inputs[Len(inputs)][1], FoldedState(lstm, Front(inputs)))[2]

SummaryIsFoldOfLiveInputs ==
    \A c \in Cands, s \in StackNames :
        LET self == cands[c][s] IN
        /\ PyIndex(heap[self.stack], -1)[1] = FoldedState(self.lstm, calls[c][s].live)
        /\ StackEmbedding(self) = LstmOutput(FoldedState(self.lstm, calls[c][s].live))
        /\ \A d \in Cands :
              calls[d][s].live = calls[c][s].live =>
                  StackEmbedding(cands[d][s]) = StackEmbedding(self)

\* two stacks hold the same unpopped input, one of them after a pop
SameLiveInputsDifferentHistory ==
    \E c \in Cands, d \in Cands, s \in StackNames :
        /\ c # d
        /\ calls[c][s].live = calls[d][s].live
        /\ Len(calls[c][s].live) = 1
        /\ calls[c][s].pops = 0
        /\ calls[d][s].pops >= 1

(* C18: immediately after c = p.copy(), c's stacks have the depth, the     *)
(* elements and the embedding of p's, the three sequences have equal       *)
(* contents, the scalars are equal, c.finished() = p.finished(), c == p    *)
(* under the ranking, and p is unchanged.                                  *)
CopyIsObservationallyEqual ==
    [][\A p \in Cands :
          Copy(p) =>
              /\ Len(cands') = Len(cands) + 1
              /\ \A s \in StackNames :
                    StackView(cands[Len(cands)][s])' = StackView(cands[p][s])
              /\ CandView(cands[Len(cands)])' = CandView(cands[p])
              /\ Finished(cands[Len(cands)])' = Finished(cands[p])
              /\ Eq(cands[Len(cands)], cands[p])'
              /\ ~Gt(cands[Len(cands)], cands[p])'
              /\ ~Gt(cands[p], cands[Len(cands)])'
              /\ CandView(cands[p])' = CandView(cands[p])]_vars

\* a copy just taken of a candidate with a pushed frame, a predicted
\* action and a ranking key other than the initial one
CopyOfWrittenCandidate ==
    /\ last = Returned("copy")
    /\ Len(cands) = 2
    /\ StackLen(cands[2].stack_stackrnn) = 1
    /\ Len(heap[cands[2].predicted_actions_idx]) = 1
    /\ cands[2].neg_prob = -7

(* C19: embedding, element_from_top, len and copy on a StackLSTM, and      *)
(* finished and the comparisons on a ParserState, leave every existing     *)
(* object as it was; a push or a pop changes only the top of the stack it  *)
(* is called on: the frames below the top, the candidate's other two       *)
(* stacks and its other fields stay as they were.                          *)
ReadsDoNotMutateAndWritesAreLocal ==
    [][/\ last'.call \in ReadCalls =>
             (Reads => (heap' = heap /\ cands' = cands))
       /\ last'.call = "copy" =>
             \A p \in Cands :
                 Copy(p) =>
                     /\ SubSeq(heap', 1, Len(heap)) = heap
                     /\ SubSeq(cands', 1, Len(cands)) = cands
       /\ last'.call \in {"push", "pop"} =>
             \A c \in Cands, s \in StackNames :
                 StackCallOn(c, s) =>
                     /\ cands' = cands
                     /\ last'.call = "push" =>
                            Front(heap'[cands[c][s].stack]) = heap[cands[c][s].stack]
                     /\ last'.call = "pop" =>
                            heap'[cands[c][s].stack] = Front(heap[cands[c][s].stack])
                     /\ \A u \in StackNames \ {s} :
                            /\ heap'[cands[c][u].stack] = heap[cands[c][u].stack]
                            /\ StackView(cands[c][u])' = StackView(cands[c][u])
                     /\ \A f \in ListFields :
                            heap'[cands[c][f]] = heap[cands[c][f]]]_vars

\* a reader has just returned on a candidate that has pushed on two of its
\* stacks and popped from one of them
ReadAfterPushesAndPop ==
    \E c \in Cands :
        /\ last.call \in ReadCalls
        /\ ~last.raised
        /\ calls[c].stack_stackrnn.pops >= 1
        /\ StackLen(cands[c].buffer_stackrnn) >= 1

====
